---- MODULE Spec2Model ----
(***************************************************************************)
(* A model of the expense tracker's message parser                         *)
(* (src/src/expense_parser.py, class ExpenseParser).                       *)
(*                                                                         *)
(* A message text is a sequence of symbols.  A symbol is one character     *)
(* ("0", "5", ",", ".", "-", ":", " ", the newline "NL", ...) or one       *)
(* opaque word: a keyword of the templates or a name, written in capitals  *)
(* when it stands for an Arabic word:                                      *)
(*   SHIRAA = purchase, HAWALA = transfer, MABLAGH = amount,               *)
(*   ALMABLAGH = the amount, LADA / LADI = at, MIN = from, ILA = to,       *)
(*   FI = on (date), WARIDA = incoming, IDAA = deposit, RIYAL = riyal,     *)
(*   RAMZ = verification code.                                             *)
(* "3057" and "3001" are the account numbers of src/config.py, kept as     *)
(* one symbol each.  The regular expressions of PATTERNS are translated    *)
(* element by element and matched with Python's backtracking priorities.   *)
(***************************************************************************)
EXTENDS Integers, Sequences, FiniteSets

VARIABLES
  my_accounts,   \* config.MY_ACCOUNTS, the ownership configuration of the session
  message,       \* the argument of the current call of parse_message
  pc,            \* "called": parse_message is running; "returned": it has returned
  result,        \* the value parse_message returned (or the exception it raised)
  raw_name,      \* the argument of the last call of _clean_merchant_name
  clean_name,    \* the value that call returned
  worker_message,  \* worker -> the argument of the worker's call of parse_message
  worker_pc,       \* worker -> "idle", "loop" (inside the loop) or "returned"
  worker_result,   \* worker -> the value the worker's call returned
  frame_text,      \* frame -> the local "message" of the call, stripped
  frame_k,         \* frame -> the place of the call's loop in PATTERNS
  expenses,        \* the rows of the table "expenses" of data/expenses.db
  sqlite_sequence, \* the largest id the table has ever given (AUTOINCREMENT)
  messages,        \* the messages the latest run of an update script extracted
  ran,             \* the script that ran last, how it ended, and whether it ran
                   \* over the messages of the run before it
  merchant_cache,  \* self.merchant_cache of the categorizer: merchant key -> category
  cache_file,      \* the "merchants" of the file merchant_cache.json
  use_ai,          \* self.use_ai and self.client: an AI client is at hand
  categorized,     \* the latest call of the categorizer: its arguments, the reply
                   \* the AI gives when asked, and the value returned
  chat_db,         \* the rows of the table "message" of chat.db at the latest
                   \* extraction, newest first
  extracted,       \* the rows extract_messages returned
  summary,         \* the latest call of get_monthly_summary and what it returned
  batch            \* the latest call of parse_messages_batch and what it returned

\* the variables of the workers that call parse_message at the same time
workerVars == <<worker_message, worker_pc, worker_result, frame_text, frame_k>>

\* the variables of the one-caller session and of the merchant normalizer
sessionVars == <<my_accounts, message, pc, result, raw_name, clean_name>>

\* the variables of the database and of the scripts that write it
dbVars == <<expenses, sqlite_sequence, messages, ran>>

\* the variable of the analyzer
analyzerVars == <<summary>>

\* the variable of the batch parser
batchVars == <<batch>>

\* the variables of the categorizer
categorizerVars == <<merchant_cache, cache_file, use_ai, categorized>>

\* the variables of the SMS extractor
extractorVars == <<chat_db, extracted>>

\* what the one-caller session and the merchant normalizer leave alone
besideSession ==
  <<workerVars, dbVars, categorizerVars, extractorVars, analyzerVars, batchVars>>

\* what the workers leave alone
besideWorkers ==
  <<sessionVars, dbVars, categorizerVars, extractorVars, analyzerVars, batchVars>>

\* what the scripts that write the database leave alone
besideDb ==
  <<sessionVars, workerVars, categorizerVars, extractorVars, analyzerVars, batchVars>>

\* what the categorizer leaves alone
besideCategorizer ==
  <<sessionVars, workerVars, dbVars, extractorVars, analyzerVars, batchVars>>

\* what the analyzer leaves alone
besideAnalyzer ==
  <<sessionVars, workerVars, dbVars, categorizerVars, extractorVars, batchVars>>

\* what the batch parser leaves alone
besideBatch ==
  <<sessionVars, workerVars, dbVars, categorizerVars, extractorVars, analyzerVars>>

\* what the SMS extractor leaves alone
besideExtractor ==
  <<sessionVars, workerVars, dbVars, categorizerVars, analyzerVars, batchVars>>

vars ==
  <<my_accounts, message, pc, result, raw_name, clean_name, workerVars, dbVars,
    categorizerVars, extractorVars, analyzerVars, batchVars>>

----------------------------------------------------------------------------
(* Symbol classes of the regular expressions.                              *)

\* \d : the digit characters, and the account numbers (runs of digits)
Digit == {"0", "5", "3057", "3001"}

\* [\d,]
DigitComma == Digit \cup {","}

\* \s
Space == {" ", "NL"}

\* every symbol a message text is built from
Alphabet ==
  Digit \cup Space \cup
  {",", ".", "-", ":", "(", ")", "$",
   "SHIRAA", "HAWALA", "MABLAGH", "ALMABLAGH", "LADA", "LADI", "MIN", "ILA",
   "FI", "WARIDA", "IDAA", "RIYAL", "RAMZ", "SAR", "sar", "SR", "rs",
   "Amount", "AMOUNT", "At", "at", "AT", "A/C", "Balance",
   "spent", "SPENT", "paid", "debited", "charged", "withdrawn",
   "card", "used", "transaction", "purchase", "Purchase", "of", "for", "on",
   "to", "atm", "ATM", "cash", "withdrawal", "sent", "Sent", "transferred",
   "via", "OTP", "code", "from", "account", "hey", "dinner",
   "X3057", "X3001", "Barq", "BARQ", "barq", "STC Pay", "Urpay", "tiqmo",
   "Amazon", "AMAZON",
   "Ahmad", "AHMAD", "Keeta", "KEETA", "john", "JOHN", "PayTM", "x", "X",
   "Unknown", "UNKNOWN"}

\* . : any character but the newline (re.DOTALL is not set)
Dot == Alphabet \ {"NL"}

\* str.lower() of a word, the comparison key of re.IGNORECASE
Fold(c) ==
  CASE c \in {"SAR", "sar"} -> "sar"
    [] c \in {"SR"} -> "sr"
    [] c \in {"Amount", "AMOUNT"} -> "amount"
    [] c \in {"At", "at", "AT"} -> "at"
    [] c \in {"spent", "SPENT"} -> "spent"
    [] c \in {"purchase", "Purchase"} -> "purchase"
    [] c \in {"atm", "ATM"} -> "atm"
    [] c \in {"sent", "Sent"} -> "sent"
    [] c = "A/C" -> "a/c"
    [] OTHER -> c

\* str.upper() of a symbol
Upper(c) ==
  CASE c \in {"Barq", "BARQ", "barq"} -> "BARQ"
    [] c \in {"Amazon", "AMAZON"} -> "AMAZON"
    [] c \in {"Ahmad", "AHMAD"} -> "AHMAD"
    [] c \in {"Keeta", "KEETA"} -> "KEETA"
    [] c \in {"john", "JOHN"} -> "JOHN"
    [] c \in {"x", "X"} -> "X"
    [] c \in {"Unknown", "UNKNOWN"} -> "UNKNOWN"
    [] c \in {"SAR", "sar"} -> "SAR"
    [] c \in {"At", "at", "AT"} -> "AT"
    [] c = "on" -> "ON"
    [] c = "of" -> "OF"
    [] c = "to" -> "TO"
    [] c = "for" -> "FOR"
    [] c = "via" -> "VIA"
    [] c = "purchase" -> "PURCHASE"
    [] c = "Purchase" -> "PURCHASE"
    [] c = "code" -> "CODE"
    [] c = "PayTM" -> "PAYTM"
    [] c = "STC Pay" -> "STC PAY"
    [] c = "Urpay" -> "URPAY"
    [] c = "tiqmo" -> "TIQMO"
    [] OTHER -> c

----------------------------------------------------------------------------
(* Regular expressions: the nodes of a pattern.                            *)

\* a literal word, compared ignoring case; MABLAGH also ends the word ALMABLAGH
Lit(w) == [t |-> "lit", c |-> {w}]
\* (?:a|b|c) of literal words
OneOf(ws) == [t |-> "lit", c |-> ws]
\* a character class, compared exactly
Cls(S) == [t |-> "cls", c |-> S]
\* x* and x+ of a character class, greedy; x*? and x+? lazy
Star(S) == [t |-> "rep", c |-> S, min |-> 0, lazy |-> FALSE]
Plus(S) == [t |-> "rep", c |-> S, min |-> 1, lazy |-> FALSE]
LazyStar(S) == [t |-> "rep", c |-> S, min |-> 0, lazy |-> TRUE]
LazyPlus(S) == [t |-> "rep", c |-> S, min |-> 1, lazy |-> TRUE]
\* x?
Opt(x) == [t |-> "opt", xs |-> <<x>>]
\* x|y|z, tried from left to right
Alt(xs) == [t |-> "alt", xs |-> xs]
\* xyz
Cat(xs) == [t |-> "cat", xs |-> xs]
\* $
End == [t |-> "end", xs |-> <<>>]

\* whether symbol c is matched by the literal word w under re.IGNORECASE
LitMatches(w, c) ==
  \/ Fold(c) = Fold(w)
  \/ w = "MABLAGH" /\ c = "ALMABLAGH"

\* the least number of a set of positive numbers (0: the set is empty)
Least(S) == IF S = {} THEN 0 ELSE CHOOSE k \in S : \A j \in S : k <= j

\* the length of the longest run of symbols of class S that starts at s[i]
Run(S, s, i) ==
  LET UpTo(stop) == IF stop = 0 THEN Len(s) + 1 - i ELSE stop - i
  IN  IF i > Len(s) THEN 0
      ELSE UpTo(Least({j \in i..Len(s) : s[j] \notin S}))

\* the sequence lo, lo+1, .., hi (up) or hi, hi-1, .., lo (down)
Range(lo, hi, up) ==
  IF hi < lo THEN <<>>
  ELSE [k \in 1..(hi - lo + 1) |-> IF up THEN lo + k - 1 ELSE hi - k + 1]

\* the concatenation of a sequence of sequences
RECURSIVE Flatten(_)
Flatten(ss) == IF ss = <<>> THEN <<>> ELSE Head(ss) \o Flatten(Tail(ss))

\* The positions at which a match of node x that starts at s[i] may end, in the
\* order in which a backtracking matcher tries them.
RECURSIVE Ends(_, _, _)
Ends(x, s, i) ==
  CASE x.t = "lit" ->
         IF i <= Len(s) /\ (\E w \in x.c : LitMatches(w, s[i]))
         THEN <<i + 1>> ELSE <<>>
    [] x.t = "cls" ->
         IF i <= Len(s) /\ s[i] \in x.c THEN <<i + 1>> ELSE <<>>
    [] x.t = "rep" ->
         Range(i + x.min, i + Run(x.c, s, i), x.lazy)
    [] x.t = "end" ->
         IF i = Len(s) + 1 THEN <<i>> ELSE <<>>
    [] x.t = "opt" ->
         Ends(x.xs[1], s, i) \o <<i>>
    [] x.t = "alt" ->
         Flatten([k \in 1..Len(x.xs) |-> Ends(x.xs[k], s, i)])
    [] x.t = "cat" ->
         IF Len(x.xs) = 0 THEN <<i>>
         ELSE LET rest == Cat(Tail(x.xs))
                  Continue(first) ==
                    Flatten([k \in 1..Len(first) |-> Ends(rest, s, first[k])])
              IN  Continue(Ends(x.xs[1], s, i))

\* The first way to match the elements re[k..] at s[i], as the sequence of the
\* positions at which each of them starts, followed by the end of the match;
\* <<>> when there is none.  FirstOf takes the candidate ends of re[k] in
\* their order and gives the match of the first one the rest matches after.
RECURSIVE MatchFrom(_, _, _, _)
FirstOf(re, k, s, cands) ==
  LET HeadOrNone(found) == IF found = <<>> THEN <<>> ELSE Head(found)
  IN  HeadOrNone(SelectSeq([j \in 1..Len(cands) |-> MatchFrom(re, k + 1, s, cands[j])],
                           LAMBDA m : m # <<>>))

MatchFrom(re, k, s, i) ==
  IF k > Len(re) THEN <<i>>
  ELSE LET From(m) == IF m = <<>> THEN <<>> ELSE <<i>> \o m
       IN  From(FirstOf(re, k, s, Ends(re[k], s, i)))

\* re.search(pattern, s): the match at the leftmost position that has one
SearchFrom(re, s, i) ==
  LET MatchAt(start) == IF start = 0 THEN <<>> ELSE MatchFrom(re, 1, s, start)
  IN  MatchAt(Least({j \in i..(Len(s) + 1) : MatchFrom(re, 1, s, j) # <<>>}))

re_search(re, s) == SearchFrom(re, s, 1)

\* match.group(g) of a match m of a pattern whose group g is element e of re
Group(m, s, e) == SubSeq(s, m[e], m[e + 1] - 1)

----------------------------------------------------------------------------
(* ExpenseParser.PATTERNS, in declaration order.  "groups" gives, for the   *)
(* capture groups 1 and 2 of the expression, the element of "pattern" that  *)
(* is the group; merchant_group 0 stands for None.                          *)

\* (?:SAR|SR|ريال)?
ArabicCurrency == Opt(OneOf({"sar", "sr", "RIYAL"}))
\* (?:rs\.?|inr|usd|sar|sr)?
LatinCurrency ==
  Opt(Alt(<<Cat(<<Lit("rs"), Opt(Lit("."))>>), OneOf({"inr", "usd", "sar", "sr"})>>))
\* [\$₹€£¥]?
CurrencySymbol == Opt(Cls({"$"}))
\* ([\d,]+\.?\d*)
AmountToken == Cat(<<Plus(DigitComma), Opt(Lit(".")), Star(Digit)>>)
\* (?:\s+on|\.|$)
OnDotEnd == Alt(<<Cat(<<Plus(Space), Lit("on")>>), Lit("."), End>>)
\* (?:at|on|to|for)
AtOnToFor == OneOf({"at", "on", "to", "for"})

PATTERNS == <<
  \* شراء.*?مبلغ:?\s*(?:SAR|SR|ريال)?\s*([\d,]+\.?\d*)\s*(?:لدى|لدي):?\s*(.+?)(?:\s+في|\n|$)
  [ pattern |-> << Lit("SHIRAA"), LazyStar(Dot), Lit("MABLAGH"), Opt(Lit(":")),
                   Star(Space), ArabicCurrency, Star(Space), AmountToken,
                   Star(Space), OneOf({"LADA", "LADI"}), Opt(Lit(":")),
                   Star(Space), LazyPlus(Dot),
                   Alt(<<Cat(<<Plus(Space), Lit("FI")>>), Cls({"NL"}), End>>) >>,
    groups |-> <<8, 13>>, amount_group |-> 1, merchant_group |-> 2 ],
  \* حوالة.*?(?:مبلغ|المبلغ):?\s*(?:SAR|SR|ريال)?\s*([\d,]+\.?\d*)
  [ pattern |-> << Lit("HAWALA"), LazyStar(Dot), OneOf({"MABLAGH", "ALMABLAGH"}),
                   Opt(Lit(":")), Star(Space), ArabicCurrency, Star(Space),
                   AmountToken >>,
    groups |-> <<8>>, amount_group |-> 1, merchant_group |-> 0,
    default_merchant |-> <<"Transfer">> ],
  \* (?:Amount|مبلغ):?\s*(?:SAR|SR|ريال)?\s*([\d,]+\.?\d*)\s*(?:SAR|SR|ريال)?.*?(?:At|لدى|لدي):?\s*(.+?)(?:\s+A/C|\n|$)
  [ pattern |-> << OneOf({"amount", "MABLAGH"}), Opt(Lit(":")), Star(Space),
                   ArabicCurrency, Star(Space), AmountToken, Star(Space),
                   ArabicCurrency, LazyStar(Dot), OneOf({"at", "LADA", "LADI"}),
                   Opt(Lit(":")), Star(Space), LazyPlus(Dot),
                   Alt(<<Cat(<<Plus(Space), Lit("a/c")>>), Cls({"NL"}), End>>) >>,
    groups |-> <<6, 13>>, amount_group |-> 1, merchant_group |-> 2 ],
  \* (?:spent|paid|debited|charged)\s*(?:rs\.?|inr|usd|sar|sr)?\s*[\$₹€£¥]?\s*([\d,]+\.?\d*)\s*(?:at|on|to|for)?\s*(.+?)(?:\s+on|\.|$)
  [ pattern |-> << OneOf({"spent", "paid", "debited", "charged"}), Star(Space),
                   LatinCurrency, Star(Space), CurrencySymbol, Star(Space),
                   AmountToken, Star(Space), Opt(AtOnToFor), Star(Space),
                   LazyPlus(Dot), OnDotEnd >>,
    groups |-> <<7, 11>>, amount_group |-> 1, merchant_group |-> 2 ],
  \* (?:rs\.?|inr|usd|sar|sr)?\s*[\$₹€£¥]?\s*([\d,]+\.?\d*)\s*(?:debited|withdrawn|paid|spent).*?(?:for|at|to)\s*(.+?)(?:\s+on|\.|$)
  [ pattern |-> << LatinCurrency, Star(Space), CurrencySymbol, Star(Space),
                   AmountToken, Star(Space),
                   OneOf({"debited", "withdrawn", "paid", "spent"}),
                   LazyStar(Dot), OneOf({"for", "at", "to"}), Star(Space),
                   LazyPlus(Dot), OnDotEnd >>,
    groups |-> <<5, 11>>, amount_group |-> 1, merchant_group |-> 2 ],
  \* card.*?(?:used|charged|debited).*?(?:for|of)\s*(?:rs\.?|inr|usd|sar|sr)?\s*[\$₹€£¥]?\s*([\d,]+\.?\d*)\s*(?:at|on|to|for)\s*(.+?)(?:\s+on|\.|$)
  [ pattern |-> << Lit("card"), LazyStar(Dot), OneOf({"used", "charged", "debited"}),
                   LazyStar(Dot), OneOf({"for", "of"}), Star(Space),
                   LatinCurrency, Star(Space), CurrencySymbol, Star(Space),
                   AmountToken, Star(Space), AtOnToFor, Star(Space),
                   LazyPlus(Dot), OnDotEnd >>,
    groups |-> <<11, 15>>, amount_group |-> 1, merchant_group |-> 2 ],
  \* transaction.*?(?:of|for)\s*(?:rs\.?|inr|usd|sar|sr)?\s*[\$₹€£¥]?\s*([\d,]+\.?\d*)\s*(?:at|on|to|for)?\s*(.+?)(?:\s+on|\.|$)
  [ pattern |-> << Lit("transaction"), LazyStar(Dot), OneOf({"of", "for"}),
                   Star(Space), LatinCurrency, Star(Space), CurrencySymbol,
                   Star(Space), AmountToken, Star(Space), Opt(AtOnToFor),
                   Star(Space), LazyPlus(Dot), OnDotEnd >>,
    groups |-> <<9, 13>>, amount_group |-> 1, merchant_group |-> 2 ],
  \* purchase.*?(?:of|for)\s*(?:rs\.?|inr|usd|sar|sr)?\s*[\$₹€£¥]?\s*([\d,]+\.?\d*)\s*(?:at|on|to|for)?\s*(.+?)(?:\s+on|\.|$)
  [ pattern |-> << Lit("purchase"), LazyStar(Dot), OneOf({"of", "for"}),
                   Star(Space), LatinCurrency, Star(Space), CurrencySymbol,
                   Star(Space), AmountToken, Star(Space), Opt(AtOnToFor),
                   Star(Space), LazyPlus(Dot), OnDotEnd >>,
    groups |-> <<9, 13>>, amount_group |-> 1, merchant_group |-> 2 ],
  \* (?:atm|cash).*?(?:withdrawal|withdrawn)\s*(?:of)?\s*(?:rs\.?|inr|usd|sar|sr)?\s*[\$₹€£¥]?\s*([\d,]+\.?\d*)
  [ pattern |-> << OneOf({"atm", "cash"}), LazyStar(Dot),
                   OneOf({"withdrawal", "withdrawn"}), Star(Space),
                   Opt(Lit("of")), Star(Space), LatinCurrency, Star(Space),
                   CurrencySymbol, Star(Space), AmountToken >>,
    groups |-> <<11>>, amount_group |-> 1, merchant_group |-> 0,
    default_merchant |-> <<"ATM Withdrawal">> ],
  \* (?:sent|transferred)\s*(?:rs\.?|inr|usd|sar|sr)?\s*[\$₹€£¥]?\s*([\d,]+\.?\d*)\s*to\s*(.+?)\s*via
  [ pattern |-> << OneOf({"sent", "transferred"}), Star(Space), LatinCurrency,
                   Star(Space), CurrencySymbol, Star(Space), AmountToken,
                   Star(Space), Lit("to"), Star(Space), LazyPlus(Dot),
                   Star(Space), Lit("via") >>,
    groups |-> <<7, 11>>, amount_group |-> 1, merchant_group |-> 2,
    is_transfer |-> TRUE ]
>>

----------------------------------------------------------------------------
(* Python values.                                                          *)

PyNone == [py |-> "None"]
\* the float num / 10^exp, with exp as small as possible
PyFloat(n, e) == [py |-> "float", num |-> n, exp |-> e]
\* an exception that propagates out of a call
PyRaise(x) == [py |-> "raise", exc |-> x]

\* str.strip(chars): s without its leading and trailing symbols of chars
RECURSIVE StripChars(_, _)
StripChars(s, chars) ==
  IF s = <<>> THEN s
  ELSE IF Head(s) \in chars THEN StripChars(Tail(s), chars)
  ELSE IF s[Len(s)] \in chars THEN StripChars(SubSeq(s, 1, Len(s) - 1), chars)
  ELSE s

\* re.sub(re, '', s, count): s without the first count matches of re, found
\* from left to right (count = 0: every match)
RECURSIVE re_sub(_, _, _)
re_sub(re, s, count) ==
  LET Without(m) ==
        IF m = <<>> \/ m[Len(m)] = m[1] THEN s
        ELSE SubSeq(s, 1, m[1] - 1) \o
             (IF count = 1 THEN SubSeq(s, m[Len(m)], Len(s))
              ELSE re_sub(re, SubSeq(s, m[Len(m)], Len(s)),
                          IF count = 0 THEN 0 ELSE count - 1))
  IN  Without(re_search(re, s))

\* the value and the number of digits of a digit symbol
DigitVal(c) ==
  CASE c = "0" -> 0 [] c = "5" -> 5 [] c = "3057" -> 3057 [] c = "3001" -> 3001
DigitWidth(c) == IF c \in {"3057", "3001"} THEN 4 ELSE 1

RECURSIVE Pow10(_)
Pow10(n) == IF n = 0 THEN 1 ELSE 10 * Pow10(n - 1)

\* the number a run of digit symbols denotes, and its number of digits
RECURSIVE DigitsWidth(_)
DigitsWidth(ds) ==
  IF ds = <<>> THEN 0 ELSE DigitWidth(Head(ds)) + DigitsWidth(Tail(ds))
RECURSIVE DigitsVal(_)
DigitsVal(ds) ==
  IF ds = <<>> THEN 0
  ELSE DigitVal(Head(ds)) * Pow10(DigitsWidth(Tail(ds))) + DigitsVal(Tail(ds))

\* num / 10^exp with the trailing zeros of the fraction dropped
RECURSIVE Normalize(_, _)
Normalize(n, e) ==
  IF e > 0 /\ n % 10 = 0 THEN Normalize(n \div 10, e - 1) ELSE PyFloat(n, e)

\* float(s) of a text s: digits, optionally a point, optionally digits, with at
\* least one digit; anything else raises ValueError
Float(s) ==
  LET Parts(ip) ==
        LET hasdot == ip < Len(s) /\ s[ip + 1] = "."
            Fraction(fp) ==
              LET used == ip + (IF hasdot THEN 1 + fp ELSE 0)
                  Value(int, frac, width) ==
                    Normalize(int * Pow10(width) + frac, width)
              IN  IF used # Len(s) \/ ip + fp = 0 THEN PyRaise("ValueError")
                  ELSE Value(DigitsVal(SubSeq(s, 1, ip)),
                             DigitsVal(SubSeq(s, ip + 2, ip + 1 + fp)),
                             DigitsWidth(SubSeq(s, ip + 2, ip + 1 + fp)))
        IN  Fraction(IF hasdot THEN Run(Digit, s, ip + 2) ELSE 0)
  IN  Parts(Run(Digit, s, 1))

\* Variant of _parse_amount without its try/except: the ValueError of float()
\* propagates to the caller.
_parse_amount_nocatch(amount_str) ==
  LET cleaned == SelectSeq(amount_str, LAMBDA c : c \notin {",", "$"})
      Positive(amount) ==
        IF amount.py = "raise" THEN amount
        ELSE IF amount.num > 0 THEN amount ELSE PyNone
  IN  Positive(Float(cleaned))

\* ExpenseParser._parse_amount
_parse_amount(amount_str) ==
  LET cleaned == SelectSeq(amount_str, LAMBDA c : c \notin {",", "$"})
      Positive(amount) ==
        IF amount.py = "raise"
        THEN IF amount.exc \in {"ValueError", "AttributeError"} THEN PyNone ELSE amount
        ELSE IF amount.num > 0 THEN amount ELSE PyNone
  IN  Positive(Float(cleaned))

\* the text cap of _clean_merchant_name, counted in symbols
MerchantCap == 50

\* \s*\(.*?\)\s*
ParenRe == <<Star(Space), Cls({"("}), LazyStar(Dot), Cls({")"}), Star(Space)>>
\* \s+on\s+\d{2}.* ; an account number holds two digits
DateRe ==
  <<Plus(Space), Cls({"on"}), Plus(Space),
    Alt(<<Cls({"3057", "3001"}), Cat(<<Cls(Digit), Cls(Digit)>>)>>), Star(Dot)>>

\* Variant of _clean_merchant_name without the truncation of its last step.
_clean_merchant_name_notrunc(merchant) ==
  IF merchant = <<>> THEN <<"Unknown">>
  ELSE LET noparen == re_sub(ParenRe, merchant, 0)
           nodate == re_sub(DateRe, noparen, 2)
           ToUpper(stripped) == [k \in 1..Len(stripped) |-> Upper(stripped[k])]
       IN  ToUpper(StripChars(nodate, {".", ",", "-", " "}))

\* ExpenseParser._clean_merchant_name
_clean_merchant_name(merchant) ==
  IF merchant = <<>> THEN <<"Unknown">>
  ELSE LET noparen == re_sub(ParenRe, merchant, 0)
           \* re.IGNORECASE (= 2) is passed as count: the search is case
           \* sensitive and replaces at most two matches
           nodate == re_sub(DateRe, noparen, 2)
           ToUpper(stripped) == [k \in 1..Len(stripped) |-> Upper(stripped[k])]
           Truncate(upper) ==
             IF Len(upper) > MerchantCap THEN SubSeq(upper, 1, MerchantCap)
             ELSE upper
       IN  Truncate(ToUpper(StripChars(nodate, {".", ",", "-", " "})))

\* pattern_info.get('is_transfer', False)
IsTransfer(pattern_info) ==
  IF "is_transfer" \in DOMAIN pattern_info THEN pattern_info.is_transfer ELSE FALSE

\* the marker of a loop body that ended with "continue"
PyContinue == [py |-> "continue"]

\* Variant of the amount test with the None test inverted:
\* "if amount is not None and amount <= 0".
AmountInvalid_NoneSlip(amount) == amount # PyNone /\ amount.num <= 0

\* "if amount is None or amount <= 0", the test of the amount in parse_message
AmountInvalid(amount) == amount = PyNone \/ amount.num <= 0

\* Variant of the loop body that ends the call on an invalid amount:
\* "return None" in the place of "continue".
OnInvalidAmount_ReturnNone == PyNone

\* what the loop body does with an invalid amount: "continue"
OnInvalidAmount == PyContinue

\* 'transfer' if pattern_info.get('is_transfer', False) else 'expense'
trans_type(pattern_info) ==
  IF IsTransfer(pattern_info) THEN "transfer" ELSE "expense"

\* Variant of the merchant of the result without the last resort
\* "merchant or 'Unknown'".
MerchantOf_NoSentinel(pattern_info, match, text) ==
  LET OrDefault(captured) ==
        IF captured = <<>> /\ "default_merchant" \in DOMAIN pattern_info
        THEN pattern_info.default_merchant
        ELSE captured
  IN  OrDefault(
        IF pattern_info.merchant_group # 0
        THEN _clean_merchant_name(
               Group(match, text, pattern_info.groups[pattern_info.merchant_group]))
        ELSE <<>>)

\* The merchant of the result: the cleaned capture, else the default label of
\* the pattern, else 'Unknown'.
MerchantOf(pattern_info, match, text) ==
  LET OrDefault(captured) ==
        IF captured = <<>> /\ "default_merchant" \in DOMAIN pattern_info
        THEN pattern_info.default_merchant
        ELSE captured
      OrUnknown(merchant) == IF merchant = <<>> THEN <<"Unknown">> ELSE merchant
  IN  OrUnknown(OrDefault(
        IF pattern_info.merchant_group # 0
        THEN _clean_merchant_name(
               Group(match, text, pattern_info.groups[pattern_info.merchant_group]))
        ELSE <<>>))

\* The body of the loop of parse_message for PATTERNS[k]: the value it
\* returns, or PyContinue when the loop goes on to the next pattern.
LoopBody(text, k) ==
  LET OnSearch(pattern_info, match) ==
        LET OnAmount(amount) ==
              IF amount.py = "raise" THEN amount
              ELSE IF AmountInvalid(amount) THEN OnInvalidAmount
              ELSE [ py |-> "dict",
                     amount |-> amount,
                     merchant |-> MerchantOf(pattern_info, match, text),
                     transaction_type |-> trans_type(pattern_info),
                     raw_message |-> text,
                     matched_pattern |-> k ]
        IN  IF match = <<>> THEN PyContinue
            ELSE OnAmount(_parse_amount(
                   Group(match, text, pattern_info.groups[pattern_info.amount_group])))
  IN  OnSearch(PATTERNS[k], re_search(PATTERNS[k].pattern, text))

\* Variant of the loop that raises when no pattern gave a result, in the
\* place of "return None".
RECURSIVE TryPatterns_raise(_, _)
TryPatterns_raise(text, k) ==
  IF k > Len(PATTERNS) THEN PyRaise("ValueError")
  ELSE LET OnBody(r) == IF r = PyContinue THEN TryPatterns_raise(text, k + 1) ELSE r
       IN  OnBody(LoopBody(text, k))

\* "for pattern_info in self.PATTERNS" from PATTERNS[k] on; None after the loop
RECURSIVE TryPatterns(_, _)
TryPatterns(text, k) ==
  IF k > Len(PATTERNS) THEN PyNone
  ELSE LET OnBody(r) == IF r = PyContinue THEN TryPatterns(text, k + 1) ELSE r
       IN  OnBody(LoopBody(text, k))

\* An argument of parse_message: a str with its text, or a value of another
\* type with its truth value.
Str(text) == [type |-> "str", truthy |-> text # <<>>, text |-> text]
NonStr(type, truthy) == [type |-> type, truthy |-> truthy, text |-> <<>>]

\* Variant of parse_message that drops every message in which an identifier of
\* the ownership configuration occurs anywhere.
parse_message_substring_filter(msg) ==
  IF ~msg.truthy \/ msg.type # "str" THEN PyNone
  ELSE IF \E i \in 1..Len(msg.text) : msg.text[i] \in my_accounts THEN PyNone
  ELSE TryPatterns(StripChars(msg.text, Space), 1)

\* Variant of parse_message without the isinstance test: str.strip does not
\* exist on a value of another type.
parse_message_noisinstance(msg) ==
  IF ~msg.truthy THEN PyNone
  ELSE IF msg.type # "str" THEN PyRaise("AttributeError")
  ELSE TryPatterns(StripChars(msg.text, Space), 1)

\* ExpenseParser.parse_message
parse_message(msg) ==
  IF ~msg.truthy \/ msg.type # "str" THEN PyNone
  ELSE TryPatterns(StripChars(msg.text, Space), 1)

----------------------------------------------------------------------------
(* The messages of the model.                                              *)

\* config.MY_ACCOUNTS
MY_ACCOUNTS ==
  {"3057", "3001", "X3057", "X3001", "Barq", "BARQ", "STC Pay", "Urpay", "barq", "tiqmo"}

\* the ownership configurations of a session: the shipped list, and none
Configs == {MY_ACCOUNTS, {}}

\* amount fields: 5, 50, 0, 0.0, 5.5, a lone comma, -5
AmountFields ==
  { <<"5">>, <<"5", "0">>, <<"0">>, <<"0", ".", "0">>, <<"5", ".", "5">>,
    <<",">>, <<"-", "5">> }
FewAmountFields == { <<"5">>, <<"0">>, <<",">> }

Seps == {" ", "NL"}

\* "purchase ... amount:SAR <amount> at:<merchant>", on one line or on several,
\* with or without a "from:3057" line and a date line
ArabicPurchases ==
  { <<"SHIRAA", sep>> \o from \o <<"MABLAGH", ":", "SAR", " ">> \o amt \o
    <<sep, "LADA", ":">> \o merchant \o tail :
      sep \in Seps, from \in {<<>>, <<"MIN", ":", "3057", " ">>},
      amt \in AmountFields,
      merchant \in {<<"Amazon">>, <<"Barq">>},
      tail \in {<<>>, <<" ", "FI", ":", "5">>} }

\* purchases whose merchant field needs cleaning
MerchantPurchases ==
  { <<"SHIRAA", " ", "MABLAGH", ":", "5", " ", "LADA", ":">> \o merchant :
      merchant \in { <<"-">>, <<"Amazon", " ", "(", "Barq", ")">>,
                     <<"Amazon", ".">>, <<"(", "Barq", ")">>,
                     <<"Amazon", " ", "on", " ", "5", "5">> } }

\* "transfer [incoming] amount:SAR <amount> from:<party> to:<party>", in the
\* layout with colons and in the layout without colons after the labels
ArabicTransfers ==
  { <<"HAWALA">> \o incoming \o <<sep>> \o
    (IF colon THEN <<"MABLAGH", ":", "SAR", " ">> ELSE <<"ALMABLAGH", "SAR", " ">>) \o
    amt \o <<sep, "MIN">> \o (IF colon THEN <<":">> ELSE <<>>) \o <<from>> \o
    <<sep, "ILA">> \o (IF colon THEN <<":">> ELSE <<>>) \o <<to>> :
      incoming \in {<<>>, <<" ", "WARIDA">>}, sep \in Seps, colon \in BOOLEAN,
      amt \in FewAmountFields, from \in {"3057", "X3001", "Ahmad"},
      to \in {"3001", "X3057", "Ahmad", "Barq"} }

\* "deposit amount SAR <amount> on account"
Deposits ==
  { <<"IDAA", " ", "MABLAGH", " ", "SAR", " ">> \o amt \o <<" ", "FI", " ", "account">> :
      amt \in AmountFields }

\* messages with a one-time-passcode cue
OtpMessages ==
  { <<"OTP", " ", "code", " ", "5", "5">>, <<"RAMZ", ":", " ", "5", "5">> } \cup
  { <<"OTP", " ", "5", "5", " ", "for", " ", "purchase", " ", "of", " ", "SAR", " ">> \o
    amt \o <<" ", "at", " ", "Amazon">> : amt \in AmountFields } \cup
  { <<"RAMZ", " ", "5", "5", " ", "SHIRAA", " ", "MABLAGH", ":", "SAR", " ">> \o
    amt \o <<" ", "LADA", ":", "Amazon">> : amt \in AmountFields } \cup
  { <<"OTP", " ", "5", "5", " ", "HAWALA", " ", "MABLAGH", ":", "SAR", " ", "5", " ",
      "MIN", ":", "3057", " ", "ILA", ":", "3001">> }

\* "Amount:<amount> SAR [Balance:5] At:Keeta [A/C:5]"
CardPurchases ==
  { <<label, ":">> \o amt \o <<" ", "SAR", sep>> \o balance \o <<at, ":", "Keeta">> \o tail :
      label \in {"Amount", "AMOUNT"}, amt \in FewAmountFields, sep \in Seps,
      balance \in {<<>>, <<"Balance", ":", "5", " ">>},
      at \in {"At", "at"}, tail \in {<<>>, <<" ", "A/C", ":", "5">>} }

\* "spent [rs.|$]<amount> [at Amazon] [on 55]"
SpentMessages ==
  { <<verb, " ">> \o cur \o amt \o rest :
      verb \in {"spent", "SPENT"}, cur \in {<<>>, <<"rs", ".">>, <<"$">>},
      amt \in AmountFields,
      rest \in { <<>>, <<" ", "at", " ", "Amazon">>,
                 <<" ", "at", " ", "Amazon", " ", "on", " ", "5", "5">> } }

\* one message for each of the other English templates
EnglishMessages ==
  UNION { { <<"rs", " ">> \o amt \o
              <<" ", "debited", " ", "from", " ", "account", " ", "for", " ", "Amazon">>,
            <<"card", " ", "used", " ", "for", " ", "rs", " ">> \o amt \o
              <<" ", "at", " ", "Amazon", " ", "on", " ", "5", "5">>,
            <<"transaction", " ", "of", " ", "$">> \o amt \o <<" ", "at", " ", "Amazon">>,
            <<"Purchase", " ", "of", " ", "rs", ".">> \o amt \o <<" ", "at", " ", "Barq">>,
            <<"ATM", " ", "withdrawal", " ", "of", " ", "rs", " ">> \o amt,
            <<"cash", " ", "withdrawn", " ">> \o amt \o <<" ", "at", " ", "ATM">>,
            <<"Sent", " ", "rs", " ">> \o amt \o <<" ", "to", " ", "john", " ", "via", " ", "PayTM">>,
            <<"transferred", " ">> \o amt \o <<" ", "to", " ", "Barq", " ", "via", " ", "STC Pay">> } :
          amt \in AmountFields }

\* messages in which two templates match
TwoRuleMessages ==
  { first \o <<".", " ">> \o second :
      first \in { <<"spent", " ">> \o amt \o <<" ", "at", " ", "Amazon">> :
                    amt \in AmountFields },
      second \in { <<"purchase", " ", "of", " ", "5", " ", "at", " ", "Barq">>,
                   <<"Sent", " ", "5", "0", " ", "to", " ", "john", " ", "via", " ", "PayTM">>,
                   <<"ATM", " ", "withdrawal", " ", "5">> } } \cup
  { <<"HAWALA", " ", "SHIRAA", " ", "MABLAGH", ":", "SAR", " ">> \o amt \o
    <<" ", "LADA", ":", "Amazon">> \o tail :
      amt \in AmountFields, tail \in {<<>>, <<" ", "MABLAGH", ":", "5", "0">>} }

\* the text of n symbols c
Repeat(c, n) == [i \in 1..n |-> c]

\* purchases whose merchant field is as long as the cap of the merchant name,
\* one character shorter or one longer, alone or followed by more text
LongMerchantPurchases ==
  { <<"SHIRAA", " ", "MABLAGH", ":", "5", " ", "LADA", ":">> \o Repeat("x", n) \o tail :
      n \in {MerchantCap - 1, MerchantCap, MerchantCap + 1},
      tail \in { <<>>, <<" ", "x">>, <<".", "x">>, <<" ", "FI", ":", "5">> } }

\* texts that no template matches
Noise ==
  { <<>>, <<" ">>, <<"NL", " ">>, <<"hey">>, <<"hey", " ", "dinner">>,
    <<" ", "hey", "NL">>, <<"5", "5">>, <<"3057">>, <<"SAR", " ", "5">> }

Texts ==
  ArabicPurchases \cup MerchantPurchases \cup ArabicTransfers \cup Deposits \cup
  OtpMessages \cup CardPurchases \cup SpentMessages \cup EnglishMessages \cup
  TwoRuleMessages \cup LongMerchantPurchases \cup Noise

\* values that are no str: None, 0, 5, nan, [], a non-empty list, bytes
NonStrings ==
  { NonStr("NoneType", FALSE), NonStr("int", FALSE), NonStr("int", TRUE),
    NonStr("float", TRUE), NonStr("list", FALSE), NonStr("list", TRUE),
    NonStr("bytes", TRUE) }

Inputs == {Str(t) : t \in Texts} \cup NonStrings

\* raw merchant names: a name, short or about as long as the cap, between
\* leading and trailing spaces, punctuation, a parenthesis or a date
RawMerchants ==
  { lead \o body \o trail :
      lead \in { <<>>, <<"-">>, <<"(", "Barq", ")", " ">> },
      body \in { <<>>, <<"Amazon">>, <<"Unknown">>,
                 Repeat("x", MerchantCap - 1), Repeat("x", MerchantCap),
                 Repeat("x", MerchantCap + 1) },
      trail \in { <<>>, <<" ">>, <<".">>, <<" ", "x">>,
                  <<" ", "on", " ", "5", "5">>, <<" ", "(", "Barq", ")">> } }

----------------------------------------------------------------------------
(* Workers that call parse_message of one parser at the same time.  The    *)
(* locals of a call (the stripped message, the place of the loop) live in  *)
(* the frame of the call; PATTERNS is an attribute of the class.           *)

Workers == {1, 2}

\* the messages the workers parse: no str, a text that no pattern matches, and
\* texts that the first, the fourth, the ninth and the tenth pattern match,
\* with a valid amount and with an amount of 0
WorkerInputs ==
  { NonStr("NoneType", FALSE),
    Str(<<" ", "hey", "NL">>),
    Str(<<"SHIRAA", " ", "MABLAGH", ":", "SAR", " ", "5", " ", "LADA", ":", "Amazon">>),
    Str(<<"spent", " ", "5", " ", "at", " ", "Barq">>),
    Str(<<"spent", " ", "0", " ", "at", " ", "Amazon", ".", " ",
          "ATM", " ", "withdrawal", " ", "5">>),
    Str(<<"Sent", " ", "rs", " ", "5", "0", " ", "to", " ", "john", " ", "via", " ", "PayTM">>) }

\* Variant in which the locals of every call are kept in one place, as
\* attributes of the parser object would be.
Frame_shared(w) == 1

\* the frame that holds the locals of the call of worker w: its own
Frame(w) == w

WorkersInit ==
  /\ worker_message = [w \in Workers |-> NonStr("NoneType", FALSE)]
  /\ worker_pc = [w \in Workers |-> "idle"]
  /\ worker_result = [w \in Workers |-> PyNone]
  /\ frame_text = [f \in Workers |-> <<>>]
  /\ frame_k = [f \in Workers |-> 1]

\* worker w calls parse_message(m): the call returns None at once for a value
\* that is falsy or no str, else it strips the text and enters the loop
WorkerCall(w, m) ==
  /\ worker_pc[w] \in {"idle", "returned"}
  /\ worker_message' = [worker_message EXCEPT ![w] = m]
  /\ IF ~m.truthy \/ m.type # "str"
     THEN /\ worker_pc' = [worker_pc EXCEPT ![w] = "returned"]
          /\ worker_result' = [worker_result EXCEPT ![w] = PyNone]
          /\ UNCHANGED <<frame_text, frame_k>>
     ELSE /\ worker_pc' = [worker_pc EXCEPT ![w] = "loop"]
          /\ worker_result' = [worker_result EXCEPT ![w] = PyNone]
          /\ frame_text' = [frame_text EXCEPT ![Frame(w)] = StripChars(m.text, Space)]
          /\ frame_k' = [frame_k EXCEPT ![Frame(w)] = 1]
  /\ UNCHANGED besideWorkers

\* the call of worker w runs one turn of "for pattern_info in self.PATTERNS":
\* it returns None after the last pattern, returns the result of the body, or
\* goes on to the next pattern
WorkerStep(w) ==
  /\ worker_pc[w] = "loop"
  /\ LET Turn(text, k) ==
           LET OnBody(r) ==
                 IF r = PyContinue
                 THEN /\ frame_k' = [frame_k EXCEPT ![Frame(w)] = k + 1]
                      /\ UNCHANGED <<worker_pc, worker_result>>
                 ELSE /\ worker_pc' = [worker_pc EXCEPT ![w] = "returned"]
                      /\ worker_result' = [worker_result EXCEPT ![w] = r]
                      /\ UNCHANGED frame_k
           IN  OnBody(IF k > Len(PATTERNS) THEN PyNone ELSE LoopBody(text, k))
     IN  Turn(frame_text[Frame(w)], frame_k[Frame(w)])
  /\ UNCHANGED <<worker_message, frame_text>>
  /\ UNCHANGED besideWorkers

NextWorkers ==
  \/ \E w \in Workers, m \in WorkerInputs : WorkerCall(w, m)
  \/ \E w \in Workers : WorkerStep(w)

----------------------------------------------------------------------------
(* The table "expenses" and the scripts that write it.  A row of the model *)
(* keeps the columns id, date, merchant, amount and raw_message; a string  *)
(* of a date is the sequence of its characters.                            *)

Digits10 == <<"0", "1", "2", "3", "4", "5", "6", "7", "8", "9">>
\* "%02d" and "%04d"
Pad2(n) == <<Digits10[(n \div 10) + 1], Digits10[(n % 10) + 1]>>
Pad4(n) == Pad2(n \div 100) \o Pad2(n % 100)

\* a datetime: year, month, day, hour (minute and second 0)
DateTime(y, m, d, h) == [year |-> y, month |-> m, day |-> d, hour |-> h]

\* dt.strftime('%Y-%m-%d')
strftime_Ymd(dt) == Pad4(dt.year) \o <<"-">> \o Pad2(dt.month) \o <<"-">> \o Pad2(dt.day)

\* standard_date = dt.strftime('%Y-%m-%d %H:%M:%S')
standard_date(dt) ==
  strftime_Ymd(dt) \o <<" ">> \o Pad2(dt.hour) \o <<":", "0", "0", ":", "0", "0">>

\* the dates and the texts of the messages of an export (each text holds a
\* financial keyword): two moments, two purchases, and a text that is no
\* expense
ExportDates == { standard_date(DateTime(2025, 1, 31, 10)), standard_date(DateTime(2025, 2, 1, 0)) }
ExportTexts ==
  { <<"SHIRAA", " ", "MABLAGH", ":", "5", " ", "LADA", ":", "Amazon">>,
    <<"spent", " ", "SAR", " ", "5", " ", "at", " ", "Barq">>,
    <<"card", " ", "hey">> }
\* the messages of an export: the first purchase and the text that is no
\* expense at the first moment, the other purchase at the second
ExportMessages ==
  { msg \in [text : ExportTexts, date : ExportDates] :
      (msg.text[1] = "spent") = (msg.date = standard_date(DateTime(2025, 2, 1, 0))) }

\* the longest list of messages of one run
MaxBatch == 2
Batches == UNION { [1..n -> ExportMessages] : n \in 0..MaxBatch }

\* parser.parse_message(msg['text']) for each text of the export
ParsedText == [text \in ExportTexts |-> parse_message(Str(text))]

\* "for msg in messages: result = parser.parse_message(msg['text']); if
\* result: ..." : the parsed expenses, in the order of the messages
ParsedExpenses(msgs) ==
  LET Expense(msg) ==
        [ date |-> msg.date, merchant |-> ParsedText[msg.text].merchant,
          amount |-> ParsedText[msg.text].amount, raw_message |-> msg.text ]
      Each(parsing) == [i \in 1..Len(parsing) |-> Expense(parsing[i])]
  IN  Each(SelectSeq(msgs, LAMBDA msg : ParsedText[msg.text].py = "dict"))

\* key = (exp['date'], exp['merchant'], exp['amount'])
KeyOf(exp) == <<exp.date, exp.merchant, exp.amount>>

\* Variant of the key set that is never read from the table.
existing_unread(table) == {}

\* existing = set((row[0], row[1], row[2]) for row in cursor.fetchall()) after
\* "SELECT date, merchant, amount FROM expenses"
existing(table) == {KeyOf(row) : row \in table}

\* "if key not in existing: new_expenses.append(exp)": the key set is the one
\* read before the loop
new_expenses(exps, table) == SelectSeq(exps, LAMBDA exp : KeyOf(exp) \notin existing(table))

\* db.add_expense for each expense of the list in turn: the rows it inserts
\* get the next ids
Inserted(exps, seq) ==
  { [ id |-> seq + i, date |-> exps[i].date, merchant |-> exps[i].merchant,
      amount |-> exps[i].amount, raw_message |-> exps[i].raw_message ] :
    i \in 1..Len(exps) }

DbInit ==
  /\ expenses = {}
  /\ sqlite_sequence = 0
  /\ messages = <<>>
  /\ ran = [script |-> "none", exit |-> "none", again |-> FALSE]

\* the run of script over msgs follows a run of the same script over msgs
Again(script, msgs) == ran.script = script /\ messages = msgs

\* extract_from_txt_export.py over an export that holds the messages msgs:
\* parse, drop the expenses whose key is in the table, insert the others
extract_from_txt_export(msgs) ==
  /\ messages' = msgs
  /\ LET Save(new) ==
           /\ expenses' = expenses \cup Inserted(new, sqlite_sequence)
           /\ sqlite_sequence' = sqlite_sequence + Len(new)
     IN  Save(new_expenses(ParsedExpenses(msgs), expenses))
  /\ ran' = [script |-> "extract_from_txt_export.py", exit |-> "0",
             again |-> Again("extract_from_txt_export.py", msgs)]
  /\ UNCHANGED besideDb

\* update_expenses.py: the call of line 23 is never closed (the comment
\* holds its parenthesis), so python stops with SyntaxError before the first
\* statement of the script
update_expenses ==
  /\ ran' = [script |-> "update_expenses.py", exit |-> "SyntaxError",
             again |-> ran.script = "update_expenses.py"]
  /\ UNCHANGED <<expenses, sqlite_sequence, messages>>
  /\ UNCHANGED besideDb

NextUpdate ==
  \/ \E msgs \in Batches : extract_from_txt_export(msgs)
  \/ update_expenses

\* the expenses a caller of add_expense saves: the two purchases at the two
\* moments
SavedExpenses ==
  { ParsedExpenses(<<msg>>)[1] :
      msg \in { m \in [text : ExportTexts, date : ExportDates] :
                  ParsedText[m.text].py = "dict" } }

\* the largest id of the table that the model follows
MaxRows == 4

\* db.add_expense(expense) by a caller that does not look for the key in the
\* table first (test_setup.py, and main.py through add_expenses_batch)
add_expense(expense) ==
  /\ sqlite_sequence < MaxRows
  /\ expenses' = expenses \cup Inserted(<<expense>>, sqlite_sequence)
  /\ sqlite_sequence' = sqlite_sequence + 1
  /\ ran' = [script |-> "add_expense", exit |-> "0", again |-> FALSE]
  /\ UNCHANGED messages
  /\ UNCHANGED besideDb

\* "SELECT date, merchant, amount ... GROUP BY date, merchant, amount HAVING
\* COUNT(*) > 1": the keys that more than one row has
duplicates(table) ==
  { key \in existing(table) : Cardinality({row \in table : KeyOf(row) = key}) > 1 }

\* "SELECT id FROM expenses WHERE date = ? AND merchant = ? AND amount = ?
\* ORDER BY id": the ids of the rows of the key, smallest first
ids(table, key) ==
  LET Of(found) ==
        CHOOSE seq \in [1..Cardinality(found) -> found] :
          \A i, j \in 1..Cardinality(found) : i < j => seq[i] < seq[j]
  IN  Of({row.id : row \in {r \in table : KeyOf(r) = key}})

\* Variant that keeps the last row of a group: ids[:-1].
ids_to_delete_keep_last(group) == SubSeq(group, 1, Len(group) - 1)

\* ids_to_delete = ids[1:]  # All except first
ids_to_delete(group) == Tail(group)

\* fix_duplicates.py: for each key of duplicates, "DELETE FROM expenses WHERE
\* id IN (ids_to_delete)", then commit
fix_duplicates ==
  /\ LET Deleted(key) == {ids_to_delete(ids(expenses, key))[i] :
                            i \in 1..Len(ids_to_delete(ids(expenses, key)))}
     IN  expenses' = {row \in expenses :
                       \A key \in duplicates(expenses) : row.id \notin Deleted(key)}
  /\ ran' = [script |-> "fix_duplicates.py", exit |-> "0",
             again |-> ran.script = "fix_duplicates.py"]
  /\ UNCHANGED <<sqlite_sequence, messages>>
  /\ UNCHANGED besideDb

NextDedup ==
  \/ \E expense \in SavedExpenses : add_expense(expense)
  \/ fix_duplicates

----------------------------------------------------------------------------
(* The categorizer (src/src/categorizer.py).  config/categories.json is a  *)
(* data file: the model takes one configuration with two categories of     *)
(* keywords, one keyword listed in both.  A keyword is one word.           *)

\* config['categories']
categories == {"Food", "Shopping", "Travel", "Other"}

\* config['merchant_keywords'], in the order of the file
merchant_keywords ==
  << [category |-> "Food", keywords |-> <<"keeta", "barq">>],
     [category |-> "Shopping", keywords |-> <<"amazon", "barq">>] >>

\* str.lower() of a word of a merchant name, of a message or of a keyword
Lower(c) ==
  CASE c \in {"Barq", "BARQ", "barq"} -> "barq"
    [] c \in {"Amazon", "AMAZON", "amazon"} -> "amazon"
    [] c \in {"Keeta", "KEETA", "keeta"} -> "keeta"
    [] c \in {"john", "JOHN"} -> "john"
    [] c \in {"Card", "CARD", "card"} -> "card"
    [] c = "SAIB" -> "saib"
    [] c = "RJHI" -> "rjhi"
    [] c = "NCB" -> "ncb"
    [] c = "SABB" -> "sabb"
    [] c = "SNB" -> "snb"
    [] OTHER -> Fold(c)

\* the cache without entries
EmptyCache == [key \in {} |-> "Other"]

\* self.merchant_cache[key] = category
Put(cache, key, category) ==
  [k \in DOMAIN cache \cup {key} |-> IF k = key THEN category ELSE cache[k]]

\* merchant_key = merchant.upper().strip()
merchant_key(merchant) == StripChars([i \in 1..Len(merchant) |-> Upper(merchant[i])], Space)

\* _categorize_by_rules: the category of the first keyword, category by
\* category in the order of the configuration, that occurs in the lower-cased
\* text "merchant raw_message" (None: no keyword occurs)
_categorize_by_rules(merchant, raw_message) ==
  LET search_text == merchant \o <<" ">> \o raw_message
      Occurs(keyword) ==
        \E i \in 1..Len(search_text) : Lower(search_text[i]) = Lower(keyword)
      Hit(rule) == \E j \in 1..Len(rule.keywords) : Occurs(rule.keywords[j])
      First(found) == IF found = 0 THEN PyNone
                      ELSE [py |-> "str", text |-> merchant_keywords[found].category]
  IN  First(Least({n \in 1..Len(merchant_keywords) : Hit(merchant_keywords[n])}))

\* the replies of the AI service: a category of the list, a text that is no
\* category of the list, and an error of the call
Replies == {"Travel", "Junk", "error"}

\* _categorize_by_ai: the reply when it is a category of the list, else None
\* (also when the call raises)
_categorize_by_ai(reply) ==
  IF reply \in categories THEN [py |-> "str", text |-> reply] ELSE PyNone

\* Variant of the test of the learned category that never finds one.
HasLearned_never(learned_category) == FALSE

\* "if learned_category:"
HasLearned(learned_category) == learned_category # PyNone

\* Variant of the cache lookup that never finds the key.
InCache_never(key, cache) == FALSE

\* "if merchant_key in self.merchant_cache:"
InCache(key, cache) == key \in DOMAIN cache

\* a value categorize_expense returns
Categorized(category, confidence, method) ==
  [category |-> category, confidence |-> confidence, method |-> method]

\* categorize_expense: the value it returns, the cache it leaves and whether
\* it calls _save_cache; confidence in hundredths.  (The amount is read by
\* the AI prompt only.)
categorize_expense(merchant, raw_message, learned_category, cache, ai, reply) ==
  LET Out(value, after, saves) == [value |-> value, cache |-> after, saves |-> saves]
      ByAi(ai_category) ==
        IF ai /\ ai_category # PyNone
        THEN Out(Categorized(ai_category.text, 90, "ai"),
                 Put(cache, merchant_key(merchant), ai_category.text), TRUE)
        ELSE Out(Categorized("Other", 50, "default"), cache, FALSE)
      ByRules(rule_category) ==
        IF rule_category # PyNone
        THEN IF merchant_key(merchant) \notin DOMAIN cache
             THEN Out(Categorized(rule_category.text, 80, "rules"),
                      Put(cache, merchant_key(merchant), rule_category.text), TRUE)
             ELSE Out(Categorized(rule_category.text, 80, "rules"), cache, FALSE)
        ELSE ByAi(_categorize_by_ai(reply))
  IN  IF HasLearned(learned_category)
      THEN Out(Categorized(learned_category.text, 100, "learned"), cache, FALSE)
      ELSE IF InCache(merchant_key(merchant), cache)
      THEN Out(Categorized(cache[merchant_key(merchant)], 95, "cached"), cache, FALSE)
      ELSE ByRules(_categorize_by_rules(merchant, raw_message))

\* the arguments of the calls: merchants (two spellings of one key), raw
\* messages (none, one with a keyword, one without) and learned categories
Merchants == { <<" ", "Amazon">>, <<"AMAZON">>, <<"Barq">>, <<"john">> }
RawMessages == { <<>>, <<"purchase", " ", "at", " ", "Keeta">>, <<"hey">> }
LearnedCategories == { PyNone, [py |-> "str", text |-> "Travel"] }

CategorizerInit ==
  /\ merchant_cache = EmptyCache
  /\ cache_file = EmptyCache
  /\ use_ai = FALSE
  /\ categorized = [call |-> "none"]

\* ExpenseCategorizer(use_ai=...): a new categorizer loads the cache of the
\* file; it uses the AI when asked to and an API key makes a client
ExpenseCategorizer(ai) ==
  /\ merchant_cache' = cache_file
  /\ use_ai' = ai
  /\ categorized' = [call |-> "__init__"]
  /\ UNCHANGED cache_file
  /\ UNCHANGED besideCategorizer

\* a caller calls categorize_expense; _save_cache writes the whole cache to
\* the file, or leaves the file as it is when the write fails (the error is
\* caught and printed)
CategorizeExpense(merchant, raw_message, learned_category, reply) ==
  /\ categorized.call # "none"
  /\ LET Do(out) ==
           /\ merchant_cache' = out.cache
           /\ categorized' =
                [ call |-> "categorize_expense", merchant |-> merchant,
                  raw_message |-> raw_message, learned_category |-> learned_category,
                  reply |-> reply, value |-> out.value ]
           /\ IF out.saves THEN cache_file' \in {out.cache, cache_file}
                           ELSE cache_file' = cache_file
     IN  Do(categorize_expense(merchant, raw_message, learned_category,
                               merchant_cache, use_ai, reply))
  /\ UNCHANGED use_ai
  /\ UNCHANGED besideCategorizer

NextCategorizer ==
  \/ \E ai \in BOOLEAN : ExpenseCategorizer(ai)
  \/ \E merchant \in Merchants, raw_message \in RawMessages,
        learned_category \in LearnedCategories, reply \in Replies :
          CategorizeExpense(merchant, raw_message, learned_category, reply)

----------------------------------------------------------------------------
(* The SMS extractor (src/src/sms_extractor.py).  A keyword is one symbol; *)
(* the Arabic keywords are written in capitals and have no lower case:     *)
(* BITAQA = card, RASID = balance, SAHB = withdrawal, MADA, FIZA = Visa,   *)
(* MASTIR = Master, ABIL BAY = Apple Pay.                                  *)

FINANCIAL_SENDERS ==
  << "bank", "card", "credit", "debit", "payment", "transaction",
     "paypal", "venmo", "zelle", "cashapp", "apple pay",
     "visa", "mastercard", "amex", "discover",
     "chase", "bofa", "wells fargo", "citi", "capital one",
     "spent", "purchased", "paid", "withdrawn", "debited",
     "purchase", "amount", "balance", "account",
     "SHIRAA", "MABLAGH", "BITAQA", "HAWALA", "RASID", "SAHB", "IDAA", "MADA",
     "FIZA", "MASTIR", "ABIL BAY", "SAR", "RIYAL", "SR",
     "SAIB", "RJHI", "NCB", "SABB", "SNB" >>

\* any(keyword in str(text).lower() for keyword in self.FINANCIAL_SENDERS):
\* the text is lowered, the keyword is taken as it is written
is_financial(text) ==
  \E n \in 1..Len(FINANCIAL_SENDERS), i \in 1..Len(text) :
    Lower(text[i]) = FINANCIAL_SENDERS[n]

\* _filter_financial_messages: df[mask], the rows in their order
_filter_financial_messages(df) == SelectSeq(df, LAMBDA row : is_financial(row.text))

\* the query of extract_messages: "... AND message.is_from_me = 0 ORDER BY
\* message.date DESC" (the rows of the model are in that order)
received(rows) == SelectSeq(rows, LAMBDA row : row.is_from_me = 0)

\* the texts of the messages of the phone: with an upper-case keyword only,
\* with a lower-case keyword written with a capital, without a keyword, with
\* Arabic keywords, with keywords of both kinds
PhoneTexts ==
  { <<"SAR", " ", "5">>, <<"SNB", ":", " ", "hey">>, <<"Card", " ", "hey">>,
    <<"hey", " ", "dinner">>, <<"SHIRAA", " ", "MABLAGH", ":", "5">>,
    <<"SAIB", " ", "purchase", " ", "5">> }
PhoneMessages == [text : PhoneTexts, is_from_me : {0, 1}]

\* the most rows of chat.db
MaxInbox == 2
Inboxes == UNION { [1..n -> PhoneMessages] : n \in 0..MaxInbox }

ExtractorInit ==
  /\ chat_db = <<>>
  /\ extracted = <<>>

\* extractor.extract_messages() on a chat.db that holds rows
extract_messages(rows) ==
  /\ chat_db' = rows
  /\ extracted' = _filter_financial_messages(received(rows))
  /\ UNCHANGED besideExtractor

NextExtractor == \E rows \in Inboxes : extract_messages(rows)

----------------------------------------------------------------------------
(* The monthly summary (src/src/analyzer.py, get_expenses of               *)
(* src/src/database.py).  The dates of the table are strings; SQLite       *)
(* compares two strings character by character, a string that is the       *)
(* beginning of another one being the smaller.                             *)

\* the place of a character of a date string in the order of the characters
Code(c) ==
  CASE c = " " -> 32
    [] c = "-" -> 45
    [] c = ":" -> 58
    [] OTHER -> 48 + Least({n \in 0..9 : Digits10[n + 1] = c})

\* a <= b for two strings in a comparison of SQLite
StrLE(a, b) ==
  LET Decide(d) == IF d = 0 THEN Len(a) <= Len(b) ELSE Code(a[d]) < Code(b[d])
      Shorter == IF Len(a) <= Len(b) THEN Len(a) ELSE Len(b)
  IN  Decide(Least({i \in 1..Shorter : a[i] # b[i]}))

\* the number of days of a month of the calendar
DaysIn(year, month) ==
  IF month = 2
  THEN IF (year % 4 = 0 /\ year % 100 # 0) \/ year % 400 = 0 THEN 29 ELSE 28
  ELSE IF month \in {4, 6, 9, 11} THEN 30 ELSE 31

\* start_date = f"{year}-{month:02d}-01" (a year of four digits)
start_date(year, month) == Pad4(year) \o <<"-">> \o Pad2(month) \o <<"-", "0", "1">>

\* end_date: f"{year}-12-31" for December, else the day before the first of
\* the next month, as '%Y-%m-%d'
end_date(year, month) ==
  IF month = 12 THEN Pad4(year) \o <<"-", "1", "2", "-", "3", "1">>
  ELSE strftime_Ymd(DateTime(year, month, DaysIn(year, month), 0))

\* get_expenses(start_date, end_date): "SELECT * FROM expenses WHERE 1=1 AND
\* date >= ? AND date <= ?"
get_expenses(table, start, end) ==
  {row \in table : StrLE(start, row.date) /\ StrLE(row.date, end)}

\* the amount of a row in whole units (the amounts of the model are whole)
Units(row) == row.amount.num

\* df['amount'].sum()
RECURSIVE SumOfAmounts(_)
SumOfAmounts(rows) ==
  IF rows = {} THEN 0
  ELSE LET Rest(row) == Units(row) + SumOfAmounts(rows \ {row})
       IN  Rest(CHOOSE row \in rows : TRUE)

\* the moments of the expenses of the table: the first day of January 2025
\* at midnight, its last day at midnight and at ten, the first of February,
\* and the last day of December 2024 at eleven in the evening
Moments ==
  { DateTime(2025, 1, 1, 0), DateTime(2025, 1, 31, 0), DateTime(2025, 1, 31, 10),
    DateTime(2025, 2, 1, 0), DateTime(2024, 12, 31, 23) }

\* the expenses saved at those moments, as the scripts store them
DatedExpenses ==
  { [ date |-> standard_date(dt), merchant |-> <<"AMAZON">>, amount |-> PyFloat(5, 0),
      raw_message |-> <<"SHIRAA", " ", "MABLAGH", ":", "5", " ", "LADA", ":", "Amazon">> ] :
    dt \in Moments }

Years == {2024, 2025}
Months == {1, 2, 12}

AnalyzerInit == summary = [call |-> "none"]

\* analyzer.get_monthly_summary(year, month)
get_monthly_summary(year, month) ==
  /\ LET Of(df) ==
           [ call |-> "get_monthly_summary", year |-> year, month |-> month,
             total_amount |-> SumOfAmounts(df), transaction_count |-> Cardinality(df) ]
     IN  summary' = Of(get_expenses(expenses, start_date(year, month), end_date(year, month)))
  /\ UNCHANGED besideAnalyzer

NextSummary ==
  \/ \E expense \in DatedExpenses : add_expense(expense)
  \/ \E year \in Years, month \in Months : get_monthly_summary(year, month)

----------------------------------------------------------------------------
(* parse_messages_batch (src/src/expense_parser.py): a frame of messages   *)
(* in, a frame of expenses out.  A frame is its columns and its rows.      *)

\* the number a string of digits denotes
RECURSIVE Number(_)
Number(digits) ==
  IF digits = <<>> THEN 0
  ELSE 10 * Number(SubSeq(digits, 1, Len(digits) - 1))
       + Least({n \in 0..9 : Digits10[n + 1] = digits[Len(digits)]})

\* pd.to_datetime of a string 'YYYY-MM-DD HH:MM:SS' (minute and second 0)
to_datetime(date) ==
  DateTime(Number(SubSeq(date, 1, 4)), Number(SubSeq(date, 6, 7)),
           Number(SubSeq(date, 9, 10)), Number(SubSeq(date, 12, 13)))

\* the text of a row of the messages: one of the texts of an export, or NULL
BatchTexts == {Str(text) : text \in ExportTexts} \cup {NonStr("NoneType", FALSE)}
Senders == {"SNB", "+966500000000"}
\* the rows of the messages: the first purchase at both moments from both
\* senders, the other texts once
BatchMessages ==
  LET first == Str(<<"SHIRAA", " ", "MABLAGH", ":", "5", " ", "LADA", ":", "Amazon">>)
      other == Str(<<"spent", " ", "SAR", " ", "5", " ", "at", " ", "Barq">>)
  IN  { row \in [date : ExportDates, text : BatchTexts, sender : Senders] :
          \/ row.text = first
          \/ row.text = other
               /\ row.date = standard_date(DateTime(2025, 2, 1, 0)) /\ row.sender # "SNB"
          \/ row.text \notin {first, other}
               /\ row.date = standard_date(DateTime(2025, 1, 31, 10)) /\ row.sender = "SNB" }

\* the most rows of a frame of messages
MaxFrame == 2
Frames == UNION { [1..n -> BatchMessages] : n \in 0..MaxFrame }

\* parse_message on the texts of the rows
ParsedBatchText == [text \in BatchTexts |-> parse_message(text)]

\* pd.DataFrame()
EmptyFrame == [columns |-> <<>>, rows |-> <<>>]

\* pd.DataFrame(expenses) of a list that is not empty
DataFrame(rows) ==
  [ columns |-> << "date", "sender", "amount", "merchant", "transaction_type",
                   "raw_message", "category", "notes" >>,
    rows |-> rows ]

\* Variant of the loop that puts each expense in front of the list.
batch_expenses_prepend(messages_df) ==
  LET Kept == SelectSeq(messages_df, LAMBDA row : ParsedBatchText[row.text].py = "dict")
  IN  [i \in 1..Len(Kept) |->
         [ date |-> Kept[Len(Kept) + 1 - i].date, sender |-> Kept[Len(Kept) + 1 - i].sender,
           amount |-> ParsedBatchText[Kept[Len(Kept) + 1 - i].text].amount,
           merchant |-> ParsedBatchText[Kept[Len(Kept) + 1 - i].text].merchant,
           transaction_type |-> ParsedBatchText[Kept[Len(Kept) + 1 - i].text].transaction_type,
           raw_message |-> ParsedBatchText[Kept[Len(Kept) + 1 - i].text].raw_message,
           category |-> PyNone, notes |-> <<>> ]]

\* "for idx, row in messages_df.iterrows(): parsed = self.parse_message(
\* row['text']); if parsed: expenses.append(expense)"
batch_expenses(messages_df) ==
  LET Kept == SelectSeq(messages_df, LAMBDA row : ParsedBatchText[row.text].py = "dict")
  IN  [i \in 1..Len(Kept) |->
         [ date |-> Kept[i].date, sender |-> Kept[i].sender,
           amount |-> ParsedBatchText[Kept[i].text].amount,
           merchant |-> ParsedBatchText[Kept[i].text].merchant,
           transaction_type |-> ParsedBatchText[Kept[i].text].transaction_type,
           raw_message |-> ParsedBatchText[Kept[i].text].raw_message,
           category |-> PyNone, notes |-> <<>> ]]

BatchInit == batch = [call |-> "none"]

\* parser.parse_messages_batch(messages_df)
parse_messages_batch(messages_df) ==
  /\ LET WithDates(list) ==
           [i \in 1..Len(list) |->
              [list[i] EXCEPT !.date = to_datetime(list[i].date)]]
         Return(list) ==
           IF list = <<>> THEN EmptyFrame ELSE DataFrame(WithDates(list))
     IN  batch' = [ call |-> "parse_messages_batch", messages_df |-> messages_df,
                    df |-> Return(batch_expenses(messages_df)) ]
  /\ UNCHANGED besideBatch

NextBatch == \E messages_df \in Frames : parse_messages_batch(messages_df)

----------------------------------------------------------------------------
(* The session: a caller that hands messages to parse_message one by one.  *)

Init ==
  /\ my_accounts \in Configs
  /\ message = NonStr("NoneType", FALSE)
  /\ pc = "idle"
  /\ result = PyNone
  /\ raw_name = <<>>
  /\ clean_name = <<>>
  /\ WorkersInit
  /\ DbInit
  /\ CategorizerInit
  /\ ExtractorInit
  /\ AnalyzerInit
  /\ BatchInit

\* the caller calls parser.parse_message(m)
Call(m) ==
  /\ pc \in {"idle", "returned"}
  /\ message' = m
  /\ pc' = "called"
  /\ result' = PyNone
  /\ UNCHANGED <<my_accounts, raw_name, clean_name>>
  /\ UNCHANGED besideSession

\* parse_message runs to its return (or to the exception it raises)
Return ==
  /\ pc = "called"
  /\ result' = parse_message(message)
  /\ pc' = "returned"
  /\ UNCHANGED <<my_accounts, message, raw_name, clean_name>>
  /\ UNCHANGED besideSession

Next == (\E m \in Inputs : Call(m)) \/ Return

Spec == Init /\ [][Next]_vars

\* a caller normalizes the raw merchant name s
CleanName(s) ==
  /\ raw_name' = s
  /\ clean_name' = _clean_merchant_name(s)
  /\ UNCHANGED <<my_accounts, message, pc, result>>
  /\ UNCHANGED besideSession

\* a caller normalizes the name the normalizer returned
CleanAgain ==
  /\ raw_name' = clean_name
  /\ clean_name' = _clean_merchant_name(clean_name)
  /\ UNCHANGED <<my_accounts, message, pc, result>>
  /\ UNCHANGED besideSession

NextMerchant == (\E s \in RawMerchants : CleanName(s)) \/ CleanAgain

\* the merchant normalizer on its own
SpecMerchant == Init /\ [][NextMerchant]_vars

\* several workers share one parser
SpecWorkers == Init /\ [][NextWorkers]_vars

\* runs of the update scripts on one database
SpecUpdate == Init /\ [][NextUpdate]_vars

\* callers that save expenses, and the duplicate-removal script
SpecDedup == Init /\ [][NextDedup]_vars

\* categorizers and their callers
SpecCategorizer == Init /\ [][NextCategorizer]_vars

\* extractions from the Messages database
SpecExtractor == Init /\ [][NextExtractor]_vars

\* a table that grows, and monthly summaries of it
SpecSummary == Init /\ [][NextSummary]_vars

\* batches of messages handed to the parser
SpecBatch == Init /\ [][NextBatch]_vars

----------------------------------------------------------------------------
(* Vocabulary of the properties.                                           *)

Returned == pc = "returned"
IsStr == message.type = "str"
\* the text the templates are matched against
Text == StripChars(message.text, Space)
IsTransaction == Returned /\ result.py = "dict"

Has(t, w) == \E i \in 1..Len(t) : t[i] = w

\* the values of the fields labelled w: the word after the label and its colon
Fields(t, w) ==
  { IF t[i + 1] = ":" /\ i + 2 <= Len(t) THEN t[i + 2] ELSE t[i + 1] :
      i \in { j \in 1..(Len(t) - 1) : t[j] = w } }

\* an identifier a of the configuration occurs in the field value f
OccursIn(a, f) ==
  \/ a = f
  \/ a = "3057" /\ f = "X3057"
  \/ a = "3001" /\ f = "X3001"
  \/ Upper(a) = Upper(f)

\* the field value resolves to a configured account or wallet
Resolves(f) == \E a \in my_accounts : OccursIn(a, f)

\* template k matches the text
ShapeMatches(k, t) == re_search(PATTERNS[k].pattern, t) # <<>>

\* the amount token template k captures in the text
CapturedAmount(k, t) ==
  Group(re_search(PATTERNS[k].pattern, t), t,
        PATTERNS[k].groups[PATTERNS[k].amount_group])

\* the merchant text template k captures in the text (none: the empty text)
CapturedMerchant(k, t) ==
  IF PATTERNS[k].merchant_group = 0 THEN <<>>
  ELSE Group(re_search(PATTERNS[k].pattern, t), t,
             PATTERNS[k].groups[PATTERNS[k].merchant_group])

\* the captured amount token is a decimal number greater than zero
ValidCapture(k, t) ==
  ShapeMatches(k, t) /\ _parse_amount(CapturedAmount(k, t)).py = "float"

Rules == 1..Len(PATTERNS)

\* the first template whose shape matches, and the first one that matches with
\* a valid amount (0: none)
FirstShapeMatch(t) == Least({k \in Rules : ShapeMatches(k, t)})
FirstValidMatch(t) == Least({k \in Rules : ValidCapture(k, t)})

\* the purchase templates: all but the transfer (2), the withdrawal (9) and
\* the sent-via-wallet (10) templates
PurchaseRules == {1, 3, 4, 5, 6, 7, 8}

\* the message carries a one-time-passcode cue
HasOtpCue == IsStr /\ (Has(message.text, "OTP") \/ Has(message.text, "RAMZ"))

\* the message announces incoming funds: an incoming transfer or a deposit
IsIncoming == IsStr /\ (Has(message.text, "WARIDA") \/ Has(message.text, "IDAA"))

\* a transfer message with a "from" and a "to" party
IsTransferMessage ==
  /\ IsStr /\ Has(message.text, "HAWALA")
  /\ Fields(message.text, "MIN") # {} /\ Fields(message.text, "ILA") # {}

\* the amount field of the message, after the currency, is a valid amount
HasValidAmountField ==
  \E i \in 1..Len(message.text) :
    /\ message.text[i] = "SAR" /\ i + 2 <= Len(message.text)
    /\ message.text[i + 1] = " "
    /\ LET n == Run(Alphabet \ Space, message.text, i + 2)
       IN  _parse_amount(SubSeq(message.text, i + 2, i + 1 + n)).py = "float"

----------------------------------------------------------------------------
(* C1: every Transaction that parse_message emits has an amount greater    *)
(* than zero, and a message whose only digits are zeros (every amount it   *)
(* can capture parses to zero) yields no Transaction.                      *)
C1_AmountPositive ==
  /\ IsTransaction => result.amount.py = "float" /\ result.amount.num > 0
  /\ Returned /\ IsStr
       /\ (\A i \in 1..Len(message.text) : message.text[i] \in Digit => message.text[i] = "0")
       => result.py # "dict"

\* a Transaction of amount 5.5 has been emitted
C1_Witness == IsTransaction /\ result.amount = PyFloat(55, 1)

(* C2: a message with a one-time-passcode cue never yields a Transaction.   *)
C2_OtpSuppressed == Returned /\ HasOtpCue => result.py # "dict"

(* C3: a transfer message whose "from" and "to" parties both resolve to     *)
(* configured identifiers yields no Transaction, in the layout with colons  *)
(* and in the layout without.                                              *)
C3_InternalTransferSuppressed ==
  Returned /\ IsTransferMessage
    /\ (\A f \in Fields(message.text, "MIN") : Resolves(f))
    /\ (\A f \in Fields(message.text, "ILA") : Resolves(f))
    => result.py # "dict"

(* C4: an outgoing transfer message with a valid amount in which exactly    *)
(* one of the two parties resolves to a configured identifier yields a      *)
(* Transaction.                                                            *)
C4_ExternalTransferEmitted ==
  Returned /\ IsTransferMessage /\ ~IsIncoming /\ HasValidAmountField
    /\ (\A f \in Fields(message.text, "MIN") : Resolves(f))
    /\ (\A f \in Fields(message.text, "ILA") : ~Resolves(f))
    => result.py = "dict"

(* C5: a wallet top-up, a purchase-shaped message whose merchant field is a *)
(* configured wallet identifier, never yields a Transaction.                *)
C5_WalletTopUpSuppressed ==
  Returned /\ IsStr /\ Has(message.text, "SHIRAA")
    /\ Fields(message.text, "LADA") # {}
    /\ (\A f \in Fields(message.text, "LADA") : Resolves(f))
    => result.py # "dict"

(* C6: an incoming-funds notification (incoming transfer, deposit) never    *)
(* yields a Transaction.                                                   *)
C6_IncomingExcluded == Returned /\ IsIncoming => result.py # "dict"

(* C7: a purchase message (a purchase template matches it with a valid      *)
(* amount) whose captured merchant holds no configured identifier yields a  *)
(* Transaction of kind expense, wherever else configured identifiers occur. *)
C7_PurchaseNotSuppressed ==
  Returned /\ IsStr =>
    \A k \in PurchaseRules :
      ValidCapture(k, Text)
        /\ (\A i \in 1..Len(CapturedMerchant(k, Text)) :
              ~Resolves(CapturedMerchant(k, Text)[i]))
        => result.py = "dict" /\ result.transaction_type = "expense"

\* a purchase at Amazon paid from the configured account 3057 was emitted
C7_Witness ==
  /\ IsTransaction /\ "3057" \in my_accounts
  /\ Fields(message.text, "MIN") = {"3057"}
  /\ result.merchant = <<"AMAZON">> /\ result.transaction_type = "expense"

----------------------------------------------------------------------------
(* Currency.  The result of parse_message is the dict of lines 127-133; a   *)
(* currency is a key of it only if the parser puts one there.               *)

\* the currency markers of the message texts, and the code each one denotes
CurrencyMarkers == {"SAR", "sar", "SR", "RIYAL", "rs", "$"}
CurrencyCode(c) ==
  CASE c \in {"SAR", "sar", "SR", "RIYAL"} -> "SAR"
    [] c = "rs" -> "INR"
    [] c = "$" -> "USD"

\* the home currency: the default of the store for an expense without one
HomeCurrency == "SAR"

\* the first currency marker of a text (none: "")
FirstMarker(t) ==
  LET at == Least({i \in 1..Len(t) : t[i] \in CurrencyMarkers})
  IN  IF at = 0 THEN "" ELSE t[at]

\* the currency the precedence rule gives a Transaction of the text: the marker
\* in the captured amount token, else the first marker of the message, else
\* the home currency
ExpectedCurrency(token, t) ==
  IF FirstMarker(token) # "" THEN CurrencyCode(FirstMarker(token))
  ELSE IF FirstMarker(t) # "" THEN CurrencyCode(FirstMarker(t))
  ELSE HomeCurrency

\* the result is a Transaction that carries the currency code c
CarriesCurrency(c) ==
  IsTransaction /\ "currency" \in DOMAIN result /\ result.currency = c

(* C12: a message that a purchase template matches first with an amount     *)
(* A > 0 and that holds a currency marker C yields a Transaction of amount  *)
(* A, currency C and kind expense whose merchant is the cleaned counterparty *)
(* field.                                                                   *)
C12_PurchaseYieldsTransaction ==
  Returned /\ IsStr /\ FirstValidMatch(Text) \in PurchaseRules
    /\ FirstMarker(Text) # ""
    => /\ result.py = "dict"
       /\ result.amount = _parse_amount(CapturedAmount(FirstValidMatch(Text), Text))
       /\ result.transaction_type = "expense"
       /\ _clean_merchant_name(CapturedMerchant(FirstValidMatch(Text), Text))
            \in {result.merchant, <<>>}
       /\ CarriesCurrency(CurrencyCode(FirstMarker(Text)))

(* C13: every Transaction carries a currency code, chosen by precedence: the *)
(* marker in the captured amount token, else a marker elsewhere in the       *)
(* message, else the home currency.                                         *)
C13_CurrencyByPrecedence ==
  IsTransaction =>
    CarriesCurrency(ExpectedCurrency(CapturedAmount(result.matched_pattern, Text), Text))

----------------------------------------------------------------------------
(* The merchant name.                                                       *)

\* the merchant text the template of the result captured (none: empty)
ResultCapture == CapturedMerchant(result.matched_pattern, Text)

\* the template of the result captures no merchant, or cleaning leaves
\* nothing of the captured text
NoMerchantLeft ==
  \/ PATTERNS[result.matched_pattern].merchant_group = 0
  \/ _clean_merchant_name(ResultCapture) = <<>>

(* C14: the merchant of every Transaction is a non-empty text; when the     *)
(* template captures no merchant, or nothing of the captured text is left   *)
(* after cleaning, it is the default label of the template ("Transfer" for  *)
(* template 2, "ATM Withdrawal" for template 9) and "Unknown" for a         *)
(* template without one.                                                    *)
C14_MerchantNonEmpty ==
  IsTransaction =>
    /\ result.merchant # <<>>
    /\ NoMerchantLeft =>
         result.merchant =
           CASE result.matched_pattern = 2 -> <<"Transfer">>
             [] result.matched_pattern = 9 -> <<"ATM Withdrawal">>
             [] OTHER -> <<"Unknown">>

\* a purchase whose captured merchant was cleaned away got the name "Unknown"
C14_Witness ==
  /\ IsTransaction /\ result.merchant = <<"Unknown">>
  /\ ResultCapture # <<>> /\ _clean_merchant_name(ResultCapture) = <<>>

\* _clean_merchant_name has been called
Cleaned == raw_name # <<>> \/ clean_name # <<>>

(* C15: merchant normalization is idempotent: normalizing the name that     *)
(* _clean_merchant_name returned gives the same name, also for raw names    *)
(* longer than the cap and with spaces or punctuation near the cap.         *)
C15_NormalizeIdempotent ==
  Cleaned => _clean_merchant_name(clean_name) = clean_name

(* C16: the merchant of every Transaction is at most 50 characters long; a  *)
(* message whose captured counterparty is longer yields a Transaction with  *)
(* the truncated name, not an error.                                        *)
C16_MerchantBounded ==
  /\ IsTransaction => Len(result.merchant) <= MerchantCap
  /\ Returned /\ IsStr /\ FirstValidMatch(Text) # 0
       /\ Len(CapturedMerchant(FirstValidMatch(Text), Text)) > MerchantCap
       => result.py = "dict" /\ Len(result.merchant) <= MerchantCap

\* a captured counterparty of more than 50 characters was cut to 50
C16_Witness ==
  /\ IsTransaction /\ Len(ResultCapture) > MerchantCap
  /\ result.merchant = Repeat("X", MerchantCap)

----------------------------------------------------------------------------
(* Layout and letter case.                                                  *)

\* the text with its fields on one line: every newline replaced by a space
OnOneLine(t) == [i \in 1..Len(t) |-> IF t[i] = "NL" THEN " " ELSE t[i]]

\* the text with its Latin keywords in lower case
KeywordsLowered(t) == [i \in 1..Len(t) |-> Fold(t[i])]

\* two results are the same outcome: both no Transaction, or Transactions of
\* the same amount, merchant and kind
SameOutcome(a, b) ==
  IF a.py = "dict" /\ b.py = "dict"
  THEN /\ a.amount = b.amount
       /\ a.merchant = b.merchant
       /\ a.transaction_type = b.transaction_type
  ELSE a.py = b.py

\* the result is that of the same fields separated by spaces
NewlineTolerant ==
  Returned /\ IsStr => SameOutcome(result, parse_message(Str(OnOneLine(message.text))))

\* the result is that of the message with its Latin keywords in lower case
CaseTolerant ==
  Returned /\ IsStr => SameOutcome(result, parse_message(Str(KeywordsLowered(message.text))))

(* C17: template matching tolerates embedded newlines and Latin letter case: *)
(* a message with its keyword, amount field and merchant field on separate  *)
(* lines, also with balance or account lines in between, yields the same    *)
(* Transaction as the same fields separated by spaces, and the case of the  *)
(* Latin keywords does not change the result.                               *)
C17_NewlineAndCaseTolerant == NewlineTolerant /\ CaseTolerant

----------------------------------------------------------------------------
(* The kind of a Transaction, withdrawals, and texts without a match.       *)

\* the transfer templates: the transfer keyword (2) and sent-via-wallet (10)
TransferRules == {2, 10}

\* the recipient of the transfer the result was made from: the "to" field of
\* a transfer-keyword message, the captured text of a sent-via-wallet message
Recipients ==
  IF result.matched_pattern = 10
  THEN {_clean_merchant_name(CapturedMerchant(10, Text))}
  ELSE {<<Upper(f)>> : f \in Fields(Text, "ILA")}

(* C18: the kind of a Transaction is transfer exactly when the template     *)
(* that gave it is a transfer template (2 or 10), and expense otherwise;    *)
(* the merchant of a transfer is the normalized recipient of the message.   *)
C18_KindFollowsTemplate ==
  IsTransaction =>
    /\ result.transaction_type = "transfer" <=> result.matched_pattern \in TransferRules
    /\ result.transaction_type \in {"transfer", "expense"}
    /\ result.matched_pattern \in TransferRules /\ Recipients # {}
         => result.merchant \in Recipients

(* C19: a message that the withdrawal template (9) matches first with an    *)
(* amount A > 0 yields a Transaction of amount A, merchant "ATM Withdrawal", *)
(* kind expense and the home currency.                                      *)
C19_AtmWithdrawal ==
  Returned /\ IsStr /\ FirstValidMatch(Text) = 9
    => /\ result.py = "dict"
       /\ result.amount = _parse_amount(CapturedAmount(9, Text))
       /\ result.merchant = <<"ATM Withdrawal">>
       /\ result.transaction_type = "expense"
       /\ CarriesCurrency(HomeCurrency)

(* C20: when no template matches the text, the result is None: neither a    *)
(* Transaction nor any other outcome, and nothing is raised.                *)
C20_NoMatchIsNone ==
  Returned /\ IsStr /\ FirstShapeMatch(Text) = 0 => result = PyNone

\* conversational text without an amount was given and None came back
C20_Witness ==
  /\ Returned /\ IsStr /\ Has(Text, "dinner")
  /\ FirstShapeMatch(Text) = 0 /\ result = PyNone

\* C21: under every interleaving of the calls of several workers, the call of
\* a worker returns what parse_message returns for its message when run
\* alone, and the ownership configuration stays as the session loaded it.
C21_ConcurrentCallsIndependent ==
  /\ my_accounts \in Configs
  /\ \A w \in Workers :
       worker_pc[w] = "returned" => worker_result[w] = parse_message(worker_message[w])

\* one worker has returned a transaction while the call of the other, on
\* another message, is inside the loop past the first pattern
C21_Witness ==
  \E w, v \in Workers :
    /\ w # v
    /\ worker_pc[w] = "returned" /\ worker_result[w].py = "dict"
    /\ worker_pc[v] = "loop" /\ frame_k[Frame(v)] > 1
    /\ worker_message[v] # worker_message[w]

\* a run of one of the update scripts
UpdateRan == ran'.script \in {"extract_from_txt_export.py", "update_expenses.py"}

\* no two rows of the table share (date, merchant, amount)
NoDuplicates(table) == \A r, q \in table : KeyOf(r) = KeyOf(q) => r = q

\* C22: an update run on a table without duplicate keys leaves a table
\* without duplicate keys, and every row of before is in it unchanged.
C22_UpdateDuplicateSafe ==
  [][ (UpdateRan /\ NoDuplicates(expenses)) =>
        (NoDuplicates(expenses') /\ expenses \subseteq expenses') ]_vars

\* C29: a run of an update script over the messages of the run before it
\* inserts no row: the table after it is the table before it.
C29_SecondRunInsertsNothing ==
  [][ (UpdateRan /\ ran'.again) => expenses' = expenses ]_vars

\* the export script has run a second time over two messages that are expenses
\* of one key, and the table holds their rows
C29_Witness ==
  /\ ran.script = "extract_from_txt_export.py" /\ ran.again
  /\ Len(messages) = 2
  /\ Len(ParsedExpenses(messages)) = 2
  /\ \A i \in 1..2 : KeyOf(ParsedExpenses(messages)[i]) \in existing(expenses)

\* the rows of the table that have the key
RowsOf(table, key) == {row \in table : KeyOf(row) = key}

\* C23: after a run of the duplicate-removal script no two rows share a key;
\* of the rows of each key of before the run, the one with the smallest id
\* is left, unchanged, and no other; so the rows of a key that one row had
\* are unchanged.
C23_FixDuplicatesKeepsSmallestId ==
  [][ ran'.script = "fix_duplicates.py" =>
        /\ NoDuplicates(expenses')
        /\ expenses' \subseteq expenses
        /\ \A key \in existing(expenses) :
             /\ Cardinality(RowsOf(expenses', key)) = 1
             /\ \A kept \in RowsOf(expenses', key), row \in RowsOf(expenses, key) :
                  kept.id <= row.id ]_vars

\* the script has run and has deleted duplicates: of the four rows that were
\* saved the rows of the ids 1 and 2 are left
C23_Witness ==
  /\ ran.script = "fix_duplicates.py"
  /\ sqlite_sequence = 4
  /\ {row.id : row \in expenses} = {1, 2}

\* the exclusion rules and the ownership filter, in the order of the claim
ExclusionOrder == <<"otp", "deposit_credit", "invalid_amount", "internal_transfer", "wallet_topup">>

\* the rule applies to the message of the call
Applies(rule) ==
  CASE rule = "otp" -> HasOtpCue
    [] rule = "deposit_credit" -> IsIncoming
    [] rule = "invalid_amount" ->
         IsStr /\ FirstShapeMatch(Text) # 0 /\ FirstValidMatch(Text) = 0
    [] rule = "internal_transfer" ->
         /\ IsTransferMessage
         /\ \A f \in Fields(message.text, "MIN") : Resolves(f)
         /\ \A f \in Fields(message.text, "ILA") : Resolves(f)
    [] rule = "wallet_topup" ->
         /\ IsStr /\ Has(message.text, "SHIRAA")
         /\ Fields(message.text, "LADA") # {}
         /\ \A f \in Fields(message.text, "LADA") : Resolves(f)

\* the earliest rule of the order that applies
EarliestRule ==
  ExclusionOrder[Least({i \in 1..Len(ExclusionOrder) : Applies(ExclusionOrder[i])})]

\* C24: a message to which several of the rules apply (an OTP cue and an
\* internal transfer, an incoming transfer with an invalid amount, ...)
\* yields no Transaction, and the reason its result states is the one of the
\* earliest rule in the order OTP, deposit/credit, invalid amount, ownership.
C24_EarliestRuleDecides ==
  Returned /\ IsStr
    /\ Cardinality({i \in 1..Len(ExclusionOrder) : Applies(ExclusionOrder[i])}) >= 2
    => /\ result.py # "dict"
       /\ "reason" \in DOMAIN result => result.reason = EarliestRule

\* the step is a call of categorize_expense
CategorizeCalled == categorized'.call = "categorize_expense"

\* the cache key of a merchant: the name trimmed and in upper case
TrimmedUpper(merchant) ==
  [i \in 1..Len(StripChars(merchant, Space)) |-> Upper(StripChars(merchant, Space)[i])]

\* a keyword of the rule occurs in the merchant name or in the raw message,
\* whatever the case of the letters
RuleMatches(rule, merchant, raw_message) ==
  \E j \in 1..Len(rule.keywords) :
    \/ \E i \in 1..Len(merchant) : Lower(merchant[i]) = Lower(rule.keywords[j])
    \/ \E i \in 1..Len(raw_message) : Lower(raw_message[i]) = Lower(rule.keywords[j])

\* the first rule of the configuration that matches (0: none)
FirstRule(merchant, raw_message) ==
  Least({n \in 1..Len(merchant_keywords) :
           RuleMatches(merchant_keywords[n], merchant, raw_message)})

\* the value the precedence of the claim gives to a call, for the cache as
\* it is before the call
ByPrecedence(call, cache, ai) ==
  IF call.learned_category # PyNone
  THEN Categorized(call.learned_category.text, 100, "learned")
  ELSE IF TrimmedUpper(call.merchant) \in DOMAIN cache
  THEN Categorized(cache[TrimmedUpper(call.merchant)], 95, "cached")
  ELSE IF FirstRule(call.merchant, call.raw_message) # 0
  THEN Categorized(merchant_keywords[FirstRule(call.merchant, call.raw_message)].category,
                   80, "rules")
  ELSE IF ai /\ call.reply \in categories
  THEN Categorized(call.reply, 90, "ai")
  ELSE Categorized("Other", 50, "default")

C28_CacheWriteOnce ==
  [][ CategorizeCalled =>
        /\ \A key \in DOMAIN merchant_cache :
             key \in DOMAIN merchant_cache' /\ merchant_cache'[key] = merchant_cache[key]
        /\ categorized'.learned_category # PyNone => merchant_cache' = merchant_cache
        /\ ( categorized'.learned_category = PyNone
             /\ TrimmedUpper(categorized'.merchant) \in DOMAIN merchant_cache )
           => categorized'.value.category = merchant_cache[TrimmedUpper(categorized'.merchant)] ]_vars

\* the entry Travel that an AI answer made for the key JOHN was returned by a
\* later call whose raw message holds a keyword of the category Food
C28_Witness ==
  /\ categorized.call = "categorize_expense"
  /\ categorized.merchant = <<"john">>
  /\ categorized.learned_category = PyNone
  /\ categorized.value = Categorized("Travel", 95, "cached")
  /\ \E i \in 1..Len(categorized.raw_message) : categorized.raw_message[i] = "Keeta"

\* the text holds a keyword of the list, whatever the case of the letters
\* of the text and of the keyword
HoldsKeyword(text) ==
  \E n \in 1..Len(FINANCIAL_SENDERS), i \in 1..Len(text) :
    Lower(text[i]) = Lower(FINANCIAL_SENDERS[n])

\* C26: the extraction keeps exactly the received messages whose text holds
\* a keyword of FINANCIAL_SENDERS compared without regard to case, the
\* upper-case keywords (SAR, SR, SAIB, RJHI, NCB, SABB, SNB) included, in
\* their order; a message the user sent is never kept.
C26_FilterKeepsKeywordMessages ==
  LET Wanted(row) == row.is_from_me = 0 /\ HoldsKeyword(row.text)
  IN  /\ extracted = SelectSeq(chat_db, Wanted)
      /\ \A i \in 1..Len(extracted) : extracted[i].is_from_me = 0

\* the timestamp of the row lies in the month: between its first and its
\* last day, at any time of the day
InMonth(row, year, month) ==
  SubSeq(row.date, 1, 7) = Pad4(year) \o <<"-">> \o Pad2(month)

\* C27: the summary of a month counts every expense of the table whose
\* timestamp lies in the month, the first and the last day included at any
\* time of day, and no other expense: transaction_count is their number and
\* total_amount their sum.
C27_SummaryCoversMonth ==
  [][ (summary'.call = "get_monthly_summary" /\ expenses' = expenses) =>
        LET OfMonth == {row \in expenses : InMonth(row, summary'.year, summary'.month)}
        IN  /\ summary'.transaction_count = Cardinality(OfMonth)
            /\ summary'.total_amount = SumOfAmounts(OfMonth) ]_vars

BatchCalled == batch.call = "parse_messages_batch"

\* the places of the messages of the batch for which parse_message returns a
\* result
ParsingPlaces ==
  {i \in 1..Len(batch.messages_df) : ParsedBatchText[batch.messages_df[i].text].py = "dict"}

\* the k-th of those places
PlaceOf(k) ==
  CHOOSE i \in ParsingPlaces : Cardinality({j \in ParsingPlaces : j <= i}) = k

\* C30: parse_messages_batch returns one row for each message for which
\* parse_message returns a result and none for the others, in the order of
\* the input; each row carries the date and the sender of its own message and
\* the amount, merchant and transaction_type of its own parse; when no
\* message parses the result is the empty frame.
C30_BatchRowsFollowMessages ==
  BatchCalled =>
    /\ Len(batch.df.rows) = Cardinality(ParsingPlaces)
    /\ \A k \in 1..Len(batch.df.rows) :
         LET Same(row, msg, parsed) ==
               /\ standard_date(row.date) = msg.date
               /\ row.sender = msg.sender
               /\ row.amount = parsed.amount
               /\ row.merchant = parsed.merchant
               /\ row.transaction_type = parsed.transaction_type
             Of(msg) == Same(batch.df.rows[k], msg, ParsedBatchText[msg.text])
         IN  Of(batch.messages_df[PlaceOf(k)])
    /\ (ParsingPlaces = {} => batch.df = EmptyFrame)

\* a batch of a message that does not parse in front of one that does, from
\* another sender at another moment, was parsed into one row
C30_Witness ==
  /\ BatchCalled
  /\ Len(batch.messages_df) = 2
  /\ ParsingPlaces = {2}
  /\ batch.messages_df[1].sender # batch.messages_df[2].sender
  /\ batch.messages_df[1].date # batch.messages_df[2].date
  /\ Len(batch.df.rows) = 1

====
